---- MODULE Spec2Model ----
(***************************************************************************)
(* Tag based version control of Bedrock prompts                           *)
(* (bedrock_prompt_management_version_control_advanced.py).               *)
(*                                                                         *)
(* The remote services are part of the state: the SSM parameter store      *)
(* (param) and the Bedrock prompt store (draft, versions).  Two CLI        *)
(* sessions (interactive_demo) drive one PromptVersionController each.     *)
(* The mutating operations take one step per remote call, so that the      *)
(* calls of two sessions interleave as they can against the real service.  *)
(* A remote call succeeds, raises ClientError (an error response of the    *)
(* service) or raises another exception of the client library (no          *)
(* connection, no credentials), which an except ClientError clause does    *)
(* not catch.  list_versions_with_tags only reads and is one step.         *)
(*                                                                         *)
(* Every prompt is a text prompt with at least one variant: all four       *)
(* operations read variants[0].templateConfiguration.text.text.            *)
(*                                                                         *)
(* The text-grouping pipeline (fixed_main_process.py, utils.py) is the     *)
(* second program of the repository, with a specification of its own       *)
(* (TranslateSpec).                                                        *)
(***************************************************************************)
EXTENDS Integers, Sequences, FiniteSets, TLC

VARIABLES param, draft, draft_tags, versions, environment, prompt_id, pc, loc, ret, nOps,
          claude_response, grouped_texts, translation_data, tpc

vars == <<param, draft, draft_tags, versions, environment, prompt_id, pc, loc, ret, nOps,
          claude_response, grouped_texts, translation_data, tpc>>

store == <<param, draft, draft_tags, versions>>

session == <<environment, prompt_id>>

\* the variables of the text-grouping pipeline (bedrock-translate), a program of
\* its own: the reply of the model, the groups parsed from it, the rows of the
\* translation document and the position in main_process_converse
pipeline == <<claude_response, grouped_texts, translation_data, tpc>>

(***************************************************************************)
(* Bounds of the model.                                                    *)
(***************************************************************************)
\* operations started by the two sessions together
MaxOps == 2

Procs == {1, 2}

Resources == {"P1", "P2"}

(***************************************************************************)
(* Program constants.                                                      *)
(***************************************************************************)
SUPPORTED_ENVIRONMENTS == {"dev", "prod"}

ENVIRONMENT_CONFIG ==
    [dev  |-> [parameter_store_path |-> "/prompts/text2sql/dev/current",
               default_tags |-> [Environment |-> "DEV", Status |-> "TESTING"]],
     prod |-> [parameter_store_path |-> "/prompts/text2sql/prod/current",
               default_tags |-> [Environment |-> "PROD", Status |-> "ACTIVE"]]]

\* max_attempts of list_versions_with_tags
max_attempts == 20

\* the slice [:100] of the summaries
SummaryLen == 100

\* str.upper() on the environment names
upper(e) == IF e = "dev" THEN "DEV" ELSE IF e = "prod" THEN "PROD" ELSE e

\* the result of datetime.now().strftime(...): the clock is not modelled
Today == "DATE"

Now == "TIME"

(***************************************************************************)
(* Texts are sequences of characters.                                      *)
(***************************************************************************)
TextA == <<"S", "1">>

TextB == <<"b">>

TextLong == [i \in 1..(SummaryLen + 1) |-> "x"]

\* what the user types for a new version: the content and its version tag
Inputs == { [content |-> TextB, version_tag |-> "v1.0.0"],
            [content |-> TextLong, version_tag |-> "v1.1.0"] }

\* what the user types for a rollback: the draft marker or a version number
Targets == {"DRAFT", "1", "2"}

\* the version tag the user types for a promotion
PromoteLabels == {"v1.3.0"}

\* the probes of an enumeration whose remote reads may fail
FaultSites == {1, max_attempts}

Ellipsis == <<".", ".", ".">>

Min(a, b) == IF a < b THEN a ELSE b

\* Summary without the marker: the slice alone
SummaryBare(text) == SubSeq(text, 1, Min(Len(text), SummaryLen))

\* text[:100] + "..."
Summary(text) == SubSeq(text, 1, Min(Len(text), SummaryLen)) \o Ellipsis

NoTags == [k \in {} |-> ""]

\* {**base, **over}: later keys override earlier ones
MergeTags(base, over) ==
    [k \in (DOMAIN base) \cup (DOMAIN over) |->
        IF k \in DOMAIN over THEN over[k] ELSE base[k]]

Variant(n, t) == [name |-> n, text |-> t]

Version(vs, tg, del) == [variants |-> vs, tags |-> tg, deleted |-> del]

\* prompt['variants'][0]['templateConfiguration']['text']['text']
FirstText(variants) == variants[1].text

\* UpdatedVariants whose copies keep their own text
UpdatedVariantsKept(variants, content) == variants

\* UpdatedVariants that replaces the text of the first variant only
UpdatedVariantsFirst(variants, content) ==
    [i \in 1..Len(variants) |->
        IF i = 1 THEN [variants[i] EXCEPT !.text = content] ELSE variants[i]]

\* the loop that copies every variant and replaces its text
UpdatedVariants(variants, content) ==
    [i \in 1..Len(variants) |-> [variants[i] EXCEPT !.text = content]]

(***************************************************************************)
(* The Bedrock prompt store.                                               *)
(***************************************************************************)
\* the numbered versions of r that get_prompt(f"{arn}:{v}") finds
Existing(vers, r) == {k \in 1..Len(vers[r]) : ~vers[r][k].deleted}

\* the version number a version string names, if it names one
Named(vers, r, v) == {k \in Existing(vers, r) : ToString(k) = v}

\* Snapshot that writes over the last version instead of adding one
SnapshotReplace(vers, drf, r) ==
    IF Len(vers[r]) = 0 THEN [vers EXCEPT ![r] = <<Version(drf[r], NoTags, FALSE)>>]
    ELSE [vers EXCEPT ![r][Len(vers[r])] = Version(drf[r], NoTags, FALSE)]

\* create_prompt_version: snapshot of the draft, numbered after the last one
Snapshot(vers, drf, r) == [vers EXCEPT ![r] = Append(@, Version(drf[r], NoTags, FALSE))]

\* tag_resource on a version's ARN
Tagged(vers, r, k, tags) == [vers EXCEPT ![r][k].tags = MergeTags(@, tags)]

\* VersionArn that gives the ARN of the prompt itself
BaseArn(r, k) == [id |-> r, version |-> 0]

\* version_response.get('arn'): the ARN of version k of prompt r; the ARN of
\* the prompt itself, which names its draft, has no version
VersionArn(r, k) == [id |-> r, version |-> k]

(***************************************************************************)
(* Initial states: the stores the sessions may find.                       *)
(***************************************************************************)
OldTags(l) == [Environment |-> "DEV", Status |-> "TESTING", Version |-> l]

\* a prompt with n versions of one variant each, all holding TextA
Plain(n) == [i \in 1..n |-> Version(<<Variant("a", TextA)>>, OldTags("v0.0.1"), FALSE)]

\* a prompt with two variants whose version 2 was deleted out of band
Gapped ==
    << Version(<<Variant("a", TextB), Variant("b", TextA)>>, OldTags("v0.0.1"), FALSE),
       Version(<<Variant("a", TextA), Variant("b", TextA)>>, OldTags("v0.0.2"), TRUE),
       Version(<<Variant("a", TextLong), Variant("b", TextB)>>, NoTags, FALSE) >>

PathOf(e) == ENVIRONMENT_CONFIG[e].parameter_store_path

Paths == {PathOf(e) : e \in SUPPORTED_ENVIRONMENTS}

\* one prompt per environment
Separate == [x \in Paths |-> IF x = PathOf("dev") THEN "P1" ELSE "P2"]

\* both environments registered with the same prompt
Shared == [x \in Paths |-> "P1"]

\* what the sessions may find: the parameter store, the prompts, the
\* environments the users select, and which of the sessions have a user
Scenarios ==
    { \* one user, dev or prod; the dev prompt has a gap and two variants
      [param |-> Separate,
       draft |-> [P1 |-> <<Variant("a", TextA), Variant("b", TextB)>>,
                  P2 |-> <<Variant("a", TextB)>>],
       versions |-> [P1 |-> Gapped, P2 |-> Plain(1)],
       environment |-> [p \in Procs |-> e],
       users |-> {1}] : e \in SUPPORTED_ENVIRONMENTS }
    \cup
    { \* two users, prod and dev, on the one prompt both environments share
      [param |-> Shared,
       draft |-> [P1 |-> <<Variant("a", TextA)>>, P2 |-> <<Variant("a", TextB)>>],
       versions |-> [P1 |-> Plain(1), P2 |-> Plain(0)],
       environment |-> [p \in Procs |-> IF p = 1 THEN "prod" ELSE "dev"],
       users |-> {1, 2}],
      \* one user; the dev prompt has as many versions as an enumeration probes
      [param |-> Separate,
       draft |-> [P1 |-> <<Variant("a", TextB)>>, P2 |-> <<Variant("a", TextB)>>],
       versions |-> [P1 |-> Plain(max_attempts), P2 |-> Plain(1)],
       environment |-> [p \in Procs |-> "dev"],
       users |-> {1}] }

Idle == [op |-> "none"]

\* __init__ of the controller of each session (interactive_demo, before the lookup)
Init ==
    /\ \E s \in Scenarios :
          /\ param = s.param
          /\ draft = s.draft
          /\ versions = s.versions
          /\ draft_tags = [r \in Resources |-> NoTags]
          /\ environment = s.environment
          /\ pc = [p \in Procs |-> IF p \in s.users THEN "init" ELSE "exit"]
    /\ prompt_id = [p \in Procs |-> "None"]
    /\ loc = [p \in Procs |-> Idle]
    /\ ret = Idle
    /\ nOps = 0
    /\ claude_response = <<>>
    /\ grouped_texts = <<>>
    /\ translation_data = <<>>
    /\ tpc = "off"

(***************************************************************************)
(* Helpers of the steps.                                                   *)
(***************************************************************************)
InCall(p) == pc[p] \notin {"init", "menu", "exit"}

\* session q takes a step and leaves newloc in its locals: every other session
\* that is inside an operation has been interleaved with
Step(q, newloc) ==
    loc' = [p \in Procs |->
              IF p = q THEN newloc
              ELSE IF InCall(p) THEN [loc[p] EXCEPT !.solo = FALSE] ELSE loc[p]]

Counts == [r \in Resources |-> Len(versions[r])]

\* what the session saw return just before this call, if anything
Previous(p) ==
    IF ret.op # "none" /\ ret.p = p
    THEN [op |-> ret.op, id |-> ret.id, args |-> ret.args, val |-> ret.val, solo |-> ret.solo]
    ELSE Idle

\* the locals of an operation that has just been called; nver, solo and prev
\* are history: the versions each prompt had at the call, whether no other
\* session has taken a step since, and (of an enumeration) the return that the
\* call follows directly
Call(p, op, args) ==
    [op |-> op, p |-> p, self_environment |-> environment[p], id |-> prompt_id[p],
     args |-> args, solo |-> TRUE, nver |-> Counts, prev |-> Idle,
     content |-> <<>>, variants |-> <<>>, target_id |-> "None", new_version |-> 0,
     verification |-> "none", listed |-> <<>>, probed |-> <<>>, missed |-> {},
     untagged |-> {},
     val |-> "None", stage |-> ""]

\* the operation with locals l returns val to session p, after failing at stage;
\* ret holds the return until the next step of any session
Finish(p, l, val, stage) ==
    /\ pc' = [pc EXCEPT ![p] = "menu"]
    /\ Step(p, Idle)
    /\ ret' = [l EXCEPT !.val = val, !.stage = stage]

Return(p, val, stage) == Finish(p, loc[p], val, stage)

\* the operation of session p goes on at label l with locals newloc
Goto(p, l, newloc) ==
    /\ pc' = [pc EXCEPT ![p] = l]
    /\ Step(p, newloc)
    /\ ret' = Idle

\* an exception that is no ClientError passes the operation's except clause
\* and interactive_demo, and main's handler ends the session; ret holds the
\* exception (val "raise") and the remote call that raised it
Escape(p, l, stage) ==
    /\ pc' = [pc EXCEPT ![p] = "exit"]
    /\ Step(p, Idle)
    /\ ret' = [l EXCEPT !.val = "raise", !.stage = stage]

\* tag_resource(resourceArn, tags): the tags go to the resource the ARN names
TagResource(arn, tags) ==
    IF arn.version = 0
    THEN /\ draft_tags' = [draft_tags EXCEPT ![arn.id] = MergeTags(@, tags)]
         /\ UNCHANGED versions
    ELSE /\ versions' = Tagged(versions, arn.id, arn.version, tags)
         /\ UNCHANGED draft_tags

\* a menu choice that calls the controller
Choice(p) ==
    /\ pc[p] = "menu"
    /\ nOps < MaxOps
    /\ nOps' = nOps + 1

(***************************************************************************)
(* get_prompt_id_from_environment, called by interactive_demo; without a   *)
(* prompt id and without manual input the session ends                     *)
(***************************************************************************)
get_prompt_id_from_environment(p) ==
    /\ pc[p] = "init"
    /\ LET l == Call(p, "resolve", [parameter_store_path |-> PathOf(environment[p])])
       IN  \/ /\ prompt_id' = [prompt_id EXCEPT ![p] = param[l.args.parameter_store_path]]
              /\ pc' = [pc EXCEPT ![p] = "menu"]
              /\ ret' = [l EXCEPT !.val = param[l.args.parameter_store_path]]
           \/ /\ prompt_id' = prompt_id
              /\ pc' = [pc EXCEPT ![p] = "exit"]
              /\ \/ ret' = [l EXCEPT !.val = "None", !.stage = "param"]
                 \/ ret' = [l EXCEPT !.val = "raise", !.stage = "param"]
    /\ UNCHANGED <<store, environment, loc, nOps, pipeline>>

(***************************************************************************)
(* create_tagged_version                                                   *)
(***************************************************************************)
\* CreateTags that forgets the version tag the caller gave
CreateTagsDefault(environment_arg, version_tag, self_environment) ==
    MergeTags(IF environment_arg \in DOMAIN ENVIRONMENT_CONFIG
                 THEN ENVIRONMENT_CONFIG[environment_arg].default_tags ELSE NoTags,
              [Version |-> "v1.0.0-default", CreatedDate |-> Today, CreatedTime |-> Now,
               SourceEnvironment |-> upper(self_environment)])

\* CreateTags that takes the default tags of the controller's environment,
\* whatever environment the caller names
CreateTagsOwn(environment_arg, version_tag, self_environment) ==
    MergeTags(ENVIRONMENT_CONFIG[self_environment].default_tags,
              [Version |-> version_tag, CreatedDate |-> Today, CreatedTime |-> Now,
               SourceEnvironment |-> upper(self_environment)])

\* the tag set of step 3
CreateTags(environment_arg, version_tag, self_environment) ==
    MergeTags(IF environment_arg \in DOMAIN ENVIRONMENT_CONFIG
                 THEN ENVIRONMENT_CONFIG[environment_arg].default_tags ELSE NoTags,
              [Version |-> version_tag, CreatedDate |-> Today, CreatedTime |-> Now,
               SourceEnvironment |-> upper(self_environment)])

\* the call with one of the given environment arguments (None: the default
\* of lines 90-91, the controller's own environment) and its get_prompt
CreateCall(p, environment_args) ==
    /\ Choice(p)
    /\ \E in \in Inputs, environment_arg \in environment_args :
         LET l == Call(p, "create",
                       [content |-> in.content, version_tag |-> in.version_tag,
                        environment |-> IF environment_arg = "None" THEN environment[p]
                                        ELSE environment_arg])
         IN  \/ Goto(p, "c_update",
                     [l EXCEPT !.variants = UpdatedVariants(draft[l.id], in.content)])
             \/ Finish(p, l, "None", "get")
             \/ Escape(p, l, "get")
    /\ UNCHANGED <<store, session, pipeline>>

\* menu choice 2: interactive_demo passes no environment
CreateGet(p) == CreateCall(p, {"None"})

\* CreateUpdate that sends the draft back as it is
CreateUpdateSame(p) ==
    /\ pc[p] = "c_update"
    /\ \/ /\ draft' = draft
          /\ Goto(p, "c_version", loc[p])
       \/ /\ \/ Return(p, "None", "update")
             \/ Escape(p, loc[p], "update")
          /\ UNCHANGED draft
    /\ UNCHANGED <<param, draft_tags, versions, session, nOps, pipeline>>

\* update_prompt of the draft
CreateUpdate(p) ==
    /\ pc[p] = "c_update"
    /\ \/ /\ draft' = [draft EXCEPT ![loc[p].id] = loc[p].variants]
          /\ Goto(p, "c_version", loc[p])
       \/ /\ \/ Return(p, "None", "update")
             \/ Escape(p, loc[p], "update")
          /\ UNCHANGED draft
    /\ UNCHANGED <<param, draft_tags, versions, session, nOps, pipeline>>

\* create_prompt_version
CreateVersion(p) ==
    /\ pc[p] = "c_version"
    /\ \/ /\ versions' = Snapshot(versions, draft, loc[p].id)
          /\ Goto(p, "c_tag", [loc[p] EXCEPT !.new_version = Len(versions[loc[p].id]) + 1])
       \/ /\ \/ Return(p, "None", "version")
             \/ Escape(p, loc[p], "version")
          /\ UNCHANGED versions
    /\ UNCHANGED <<param, draft, draft_tags, session, nOps, pipeline>>

\* tag_resource and the return of the new version
CreateTag(p) ==
    /\ pc[p] = "c_tag"
    /\ \/ /\ TagResource(VersionArn(loc[p].id, loc[p].new_version),
                          CreateTags(loc[p].args.environment, loc[p].args.version_tag,
                                     loc[p].self_environment))
          /\ Return(p, ToString(loc[p].new_version), "")
       \/ /\ \/ Return(p, "None", "tag")
             \/ Escape(p, loc[p], "tag")
          /\ UNCHANGED <<draft_tags, versions>>
    /\ UNCHANGED <<param, draft, session, nOps, pipeline>>

(***************************************************************************)
(* list_versions_with_tags                                                 *)
(***************************************************************************)
\* the remote reads of one enumeration that raise ClientError (get) or any
\* exception (tags)
FaultSets ==
    LET sites == {"get", "tags"} \X FaultSites
    IN  {f \in SUBSET sites : Cardinality(f) <= 1} \cup {sites}

\* one record of the result
Info(version, variants, tags) ==
    [version |-> version, content |-> Summary(FirstText(variants)), tags |-> tags]

\* ListLoop with a strict comparison: the last number is never probed
RECURSIVE ListLoopShort(_, _, _, _, _)
ListLoopShort(vers, r, faults, version_num, acc) ==
    IF version_num >= max_attempts THEN acc
    ELSE LET probed == Append(acc.probed, version_num)
         IN  IF version_num \in Existing(vers, r) /\ <<"get", version_num>> \notin faults
             THEN ListLoopShort(vers, r, faults, version_num + 1,
                    [acc EXCEPT
                       !.listed = Append(@, Info(ToString(version_num),
                                                 vers[r][version_num].variants,
                                                 IF <<"tags", version_num>> \in faults
                                                    THEN NoTags ELSE vers[r][version_num].tags)),
                       !.probed = probed,
                       !.untagged = IF <<"tags", version_num>> \in faults
                                       THEN @ \cup {version_num} ELSE @])
             ELSE ListLoopShort(vers, r, faults, version_num + 1,
                    [acc EXCEPT !.probed = probed, !.missed = @ \cup {version_num}])

\* ListLoop that breaks at the first get_prompt that raises
RECURSIVE ListLoopStop(_, _, _, _, _)
ListLoopStop(vers, r, faults, version_num, acc) ==
    IF version_num > max_attempts THEN acc
    ELSE LET probed == Append(acc.probed, version_num)
         IN  IF version_num \in Existing(vers, r) /\ <<"get", version_num>> \notin faults
             THEN ListLoopStop(vers, r, faults, version_num + 1,
                    [acc EXCEPT
                       !.listed = Append(@, Info(ToString(version_num),
                                                 vers[r][version_num].variants,
                                                 IF <<"tags", version_num>> \in faults
                                                    THEN NoTags ELSE vers[r][version_num].tags)),
                       !.probed = probed,
                       !.untagged = IF <<"tags", version_num>> \in faults
                                       THEN @ \cup {version_num} ELSE @])
             ELSE [acc EXCEPT !.probed = probed, !.missed = @ \cup {version_num}]

\* ListLoop whose failed tag lookup drops the version from the result
RECURSIVE ListLoopDrop(_, _, _, _, _)
ListLoopDrop(vers, r, faults, version_num, acc) ==
    IF version_num > max_attempts THEN acc
    ELSE LET probed == Append(acc.probed, version_num)
         IN  IF version_num \in Existing(vers, r) /\ <<"get", version_num>> \notin faults
             THEN ListLoopDrop(vers, r, faults, version_num + 1,
                    [acc EXCEPT
                       !.listed = IF <<"tags", version_num>> \in faults THEN @
                                  ELSE Append(@, Info(ToString(version_num),
                                                      vers[r][version_num].variants,
                                                      vers[r][version_num].tags)),
                       !.probed = probed,
                       !.untagged = IF <<"tags", version_num>> \in faults
                                       THEN @ \cup {version_num} ELSE @])
             ELSE ListLoopDrop(vers, r, faults, version_num + 1,
                    [acc EXCEPT !.probed = probed, !.missed = @ \cup {version_num}])

\* ListLoop whose ceiling is one probe higher
RECURSIVE ListLoopLong(_, _, _, _, _)
ListLoopLong(vers, r, faults, version_num, acc) ==
    IF version_num > max_attempts + 1 THEN acc
    ELSE LET probed == Append(acc.probed, version_num)
         IN  IF version_num \in Existing(vers, r) /\ <<"get", version_num>> \notin faults
             THEN ListLoopLong(vers, r, faults, version_num + 1,
                    [acc EXCEPT
                       !.listed = Append(@, Info(ToString(version_num),
                                                 vers[r][version_num].variants,
                                                 IF <<"tags", version_num>> \in faults
                                                    THEN NoTags ELSE vers[r][version_num].tags)),
                       !.probed = probed,
                       !.untagged = IF <<"tags", version_num>> \in faults
                                       THEN @ \cup {version_num} ELSE @])
             ELSE ListLoopLong(vers, r, faults, version_num + 1,
                    [acc EXCEPT !.probed = probed, !.missed = @ \cup {version_num}])

\* the while loop from version_num on: acc.listed are the records so far,
\* acc.probed the version numbers whose get_prompt has been issued, acc.missed
\* those whose get_prompt raised and acc.untagged those whose tag lookup raised
RECURSIVE ListLoop(_, _, _, _, _)
ListLoop(vers, r, faults, version_num, acc) ==
    IF version_num > max_attempts THEN acc
    ELSE LET probed == Append(acc.probed, version_num)
         IN  IF version_num \in Existing(vers, r) /\ <<"get", version_num>> \notin faults
             THEN ListLoop(vers, r, faults, version_num + 1,
                    [acc EXCEPT
                       !.listed = Append(@, Info(ToString(version_num),
                                                 vers[r][version_num].variants,
                                                 IF <<"tags", version_num>> \in faults
                                                    THEN NoTags ELSE vers[r][version_num].tags)),
                       !.probed = probed,
                       !.untagged = IF <<"tags", version_num>> \in faults
                                       THEN @ \cup {version_num} ELSE @])
             ELSE ListLoop(vers, r, faults, version_num + 1,
                    [acc EXCEPT !.probed = probed, !.missed = @ \cup {version_num}])

\* the whole call: the draft's record, then the loop
ListVersions(p) ==
    /\ Choice(p)
    /\ LET l == Call(p, "list", [prompt_identifier |-> prompt_id[p]])
       IN  \/ \E faults \in FaultSets :
                LET res == ListLoop(versions, l.id, faults, 1,
                             [listed |-> <<Info("DRAFT", draft[l.id], NoTags)>>,
                              probed |-> <<>>, missed |-> {}, untagged |-> {}])
                IN  Finish(p, [l EXCEPT !.listed = res.listed, !.probed = res.probed,
                                        !.missed = res.missed, !.untagged = res.untagged,
                                        !.prev = Previous(p)], "list", "")
           \/ Finish(p, l, "list", "get")
           \/ \E stage \in {"get", "probe"} : Escape(p, l, stage)
    /\ UNCHANGED <<store, session, pipeline>>

(***************************************************************************)
(* rollback_to_version                                                     *)
(***************************************************************************)
\* RollbackTags with the two ends of the rollback exchanged
RollbackTagsSwapped(target_version, rollback_reason, self_environment) ==
    [Environment |-> "ROLLBACK", RollbackFrom |-> target_version, RollbackTo |-> "DRAFT",
     RollbackDate |-> Today, RollbackReason |-> rollback_reason,
     Status |-> "ROLLBACK_COMPLETE", SourceEnvironment |-> upper(self_environment)]

\* RollbackTags laid under the default tags of the controller's environment
RollbackTagsMerged(target_version, rollback_reason, self_environment) ==
    MergeTags([Environment |-> "ROLLBACK", RollbackFrom |-> "DRAFT",
               RollbackTo |-> target_version, RollbackDate |-> Today,
               RollbackReason |-> rollback_reason, Status |-> "ROLLBACK_COMPLETE",
               SourceEnvironment |-> upper(self_environment)],
              ENVIRONMENT_CONFIG[self_environment].default_tags)

\* the tag set of step 5
RollbackTags(target_version, rollback_reason, self_environment) ==
    [Environment |-> "ROLLBACK", RollbackFrom |-> "DRAFT", RollbackTo |-> target_version,
     RollbackDate |-> Today, RollbackReason |-> rollback_reason,
     Status |-> "ROLLBACK_COMPLETE", SourceEnvironment |-> upper(self_environment)]

\* the call and its get_prompt of the draft; the draft marker needs no second read
RollbackGet(p) ==
    /\ Choice(p)
    /\ \E target_version \in Targets :
         LET l == Call(p, "rollback", [target_version |-> target_version,
                                       rollback_reason |-> "Manual rollback"])
         IN  \/ /\ target_version = "DRAFT"
                /\ Goto(p, "r_update",
                        [l EXCEPT !.content = FirstText(draft[l.id]),
                                  !.variants = UpdatedVariants(draft[l.id], FirstText(draft[l.id]))])
             \/ /\ target_version # "DRAFT"
                /\ Goto(p, "r_target", [l EXCEPT !.variants = draft[l.id]])
             \/ Finish(p, l, "False", "get")
             \/ Escape(p, l, "get")
    /\ UNCHANGED <<store, session, pipeline>>

\* RollbackTarget that takes the draft's content when the target version is
\* not found
RollbackTargetLenient(p) ==
    /\ pc[p] = "r_target"
    /\ \/ \E k \in Named(versions, loc[p].id, loc[p].args.target_version) :
             LET target_content == FirstText(versions[loc[p].id][k].variants)
             IN  Goto(p, "r_update",
                      [loc[p] EXCEPT !.content = target_content,
                                     !.variants = UpdatedVariants(@, target_content)])
       \/ /\ Named(versions, loc[p].id, loc[p].args.target_version) = {}
          /\ Goto(p, "r_update",
                  [loc[p] EXCEPT !.content = FirstText(draft[loc[p].id]),
                                 !.variants = UpdatedVariants(@, FirstText(draft[loc[p].id]))])
       \/ Return(p, "False", "target")
       \/ Escape(p, loc[p], "target")
    /\ UNCHANGED <<store, session, nOps, pipeline>>

\* get_prompt of the target version
RollbackTarget(p) ==
    /\ pc[p] = "r_target"
    /\ \/ \E k \in Named(versions, loc[p].id, loc[p].args.target_version) :
             LET target_content == FirstText(versions[loc[p].id][k].variants)
             IN  Goto(p, "r_update",
                      [loc[p] EXCEPT !.content = target_content,
                                     !.variants = UpdatedVariants(@, target_content)])
       \/ Return(p, "False", "target")
       \/ Escape(p, loc[p], "target")
    /\ UNCHANGED <<store, session, nOps, pipeline>>

\* update_prompt of the draft
RollbackUpdate(p) ==
    /\ pc[p] = "r_update"
    /\ \/ /\ draft' = [draft EXCEPT ![loc[p].id] = loc[p].variants]
          /\ Goto(p, "r_version", loc[p])
       \/ /\ \/ Return(p, "False", "update")
             \/ Escape(p, loc[p], "update")
          /\ UNCHANGED draft
    /\ UNCHANGED <<param, draft_tags, versions, session, nOps, pipeline>>

\* create_prompt_version
RollbackVersion(p) ==
    /\ pc[p] = "r_version"
    /\ \/ /\ versions' = Snapshot(versions, draft, loc[p].id)
          /\ Goto(p, "r_tag", [loc[p] EXCEPT !.new_version = Len(versions[loc[p].id]) + 1])
       \/ /\ \/ Return(p, "False", "version")
             \/ Escape(p, loc[p], "version")
          /\ UNCHANGED versions
    /\ UNCHANGED <<param, draft, draft_tags, session, nOps, pipeline>>

\* tag_resource and the return
RollbackTag(p) ==
    /\ pc[p] = "r_tag"
    /\ \/ /\ TagResource(VersionArn(loc[p].id, loc[p].new_version),
                          RollbackTags(loc[p].args.target_version,
                                       loc[p].args.rollback_reason,
                                       loc[p].self_environment))
          /\ Return(p, "True", "")
       \/ /\ \/ Return(p, "False", "tag")
             \/ Escape(p, loc[p], "tag")
          /\ UNCHANGED <<draft_tags, versions>>
    /\ UNCHANGED <<param, draft, session, nOps, pipeline>>

(***************************************************************************)
(* promote_version                                                         *)
(***************************************************************************)
\* the tag set of step 6
PromotionTags(to_env, from_env, version_tag, prompt_identifier) ==
    MergeTags(IF to_env \in DOMAIN ENVIRONMENT_CONFIG
                 THEN ENVIRONMENT_CONFIG[to_env].default_tags ELSE NoTags,
              [Version |-> version_tag, PromotedFrom |-> upper(from_env),
               PromotedDate |-> Today, PromotedTime |-> Now,
               SourcePromptId |-> prompt_identifier,
               PromotionType |-> "ENVIRONMENT_PROMOTION"])

\* the call (menu choice 4: to another environment) and get_prompt of the source
PromoteGet(p) ==
    /\ Choice(p)
    /\ \E to_env \in SUPPORTED_ENVIRONMENTS \ {environment[p]}, version_tag \in PromoteLabels :
         LET l == Call(p, "promote", [from_env |-> environment[p], to_env |-> to_env,
                                      version_tag |-> version_tag])
         IN  \/ Goto(p, "p_param", [l EXCEPT !.content = FirstText(draft[l.id])])
             \/ Finish(p, l, "False", "get")
    /\ UNCHANGED <<store, session, pipeline>>

\* PromoteParam whose lookup failure is noticed only after the source draft
\* has been rewritten
PromoteParamLate(p) ==
    /\ pc[p] = "p_param"
    /\ \/ /\ Goto(p, "p_target", [loc[p] EXCEPT !.target_id = param[PathOf(loc[p].args.to_env)]])
          /\ UNCHANGED draft
       \/ /\ Return(p, "False", "param")
          /\ draft' = [draft EXCEPT ![loc[p].id] = UpdatedVariants(@, <<>>)]
    /\ UNCHANGED <<param, draft_tags, versions, session, nOps, pipeline>>

\* get_parameter of the target environment
PromoteParam(p) ==
    /\ pc[p] = "p_param"
    /\ \/ Goto(p, "p_target", [loc[p] EXCEPT !.target_id = param[PathOf(loc[p].args.to_env)]])
       \/ Return(p, "False", "param")
    /\ UNCHANGED <<store, session, nOps, pipeline>>

\* get_prompt of the target prompt
PromoteTarget(p) ==
    /\ pc[p] = "p_target"
    /\ \/ Goto(p, "p_update",
               [loc[p] EXCEPT !.variants = UpdatedVariants(draft[loc[p].target_id], loc[p].content)])
       \/ Return(p, "False", "target")
    /\ UNCHANGED <<store, session, nOps, pipeline>>

\* PromoteUpdate that writes the draft of the source prompt
PromoteUpdateSource(p) ==
    /\ pc[p] = "p_update"
    /\ \/ /\ draft' = [draft EXCEPT ![loc[p].id] = loc[p].variants]
          /\ Goto(p, "p_version", loc[p])
       \/ /\ Return(p, "False", "update")
          /\ UNCHANGED draft
    /\ UNCHANGED <<param, draft_tags, versions, session, nOps, pipeline>>

\* update_prompt of the target draft
PromoteUpdate(p) ==
    /\ pc[p] = "p_update"
    /\ \/ /\ draft' = [draft EXCEPT ![loc[p].target_id] = loc[p].variants]
          /\ Goto(p, "p_version", loc[p])
       \/ /\ Return(p, "False", "update")
          /\ UNCHANGED draft
    /\ UNCHANGED <<param, draft_tags, versions, session, nOps, pipeline>>

\* PromoteVersion that snapshots the source prompt
PromoteVersionSource(p) ==
    /\ pc[p] = "p_version"
    /\ \/ /\ versions' = Snapshot(versions, draft, loc[p].id)
          /\ Goto(p, "p_tag", [loc[p] EXCEPT !.new_version = Len(versions[loc[p].id]) + 1])
       \/ /\ Return(p, "False", "version")
          /\ UNCHANGED versions
    /\ UNCHANGED <<param, draft, draft_tags, session, nOps, pipeline>>

\* create_prompt_version of the target prompt
PromoteVersion(p) ==
    /\ pc[p] = "p_version"
    /\ \/ /\ versions' = Snapshot(versions, draft, loc[p].target_id)
          /\ Goto(p, "p_tag",
                  [loc[p] EXCEPT !.new_version = Len(versions[loc[p].target_id]) + 1])
       \/ /\ Return(p, "False", "version")
          /\ UNCHANGED versions
    /\ UNCHANGED <<param, draft, draft_tags, session, nOps, pipeline>>

\* tag_resource of the new version
PromoteTag(p) ==
    /\ pc[p] = "p_tag"
    /\ \/ /\ TagResource(VersionArn(loc[p].target_id, loc[p].new_version),
                          PromotionTags(loc[p].args.to_env, loc[p].args.from_env,
                                        loc[p].args.version_tag, loc[p].id))
          /\ Goto(p, "p_verify", loc[p])
       \/ /\ Return(p, "False", "tag")
          /\ UNCHANGED <<draft_tags, versions>>
    /\ UNCHANGED <<param, draft, session, nOps, pipeline>>

\* what step 7 reports about the content it reads back
Verification(verification_content, source_content) ==
    IF verification_content = source_content THEN "successful" ELSE "warning"

\* VerifyResult that fails the promotion on a mismatch
VerifyResultStrict(verification_content, source_content) ==
    IF verification_content = source_content THEN "True" ELSE "False"

\* what step 7 returns
VerifyResult(verification_content, source_content) ==
    IF verification_content = source_content THEN "True" ELSE "True"

\* the read-back and the return
PromoteVerify(p) ==
    /\ pc[p] = "p_verify"
    /\ \/ LET verification_content == FirstText(draft[loc[p].target_id])
          IN  Finish(p, [loc[p] EXCEPT !.verification =
                                         Verification(verification_content, loc[p].content)],
                     VerifyResult(verification_content, loc[p].content), "")
       \/ Return(p, "False", "verify")
    /\ UNCHANGED <<store, session, nOps, pipeline>>

Next ==
    \E p \in Procs :
        \/ get_prompt_id_from_environment(p)
        \/ CreateGet(p)
        \/ CreateUpdate(p)
        \/ CreateVersion(p)
        \/ CreateTag(p)
        \/ ListVersions(p)
        \/ RollbackGet(p)
        \/ RollbackTarget(p)
        \/ RollbackUpdate(p)
        \/ RollbackVersion(p)
        \/ RollbackTag(p)
        \/ PromoteGet(p)
        \/ PromoteParam(p)
        \/ PromoteTarget(p)
        \/ PromoteUpdate(p)
        \/ PromoteVersion(p)
        \/ PromoteTag(p)
        \/ PromoteVerify(p)

Spec == Init /\ [][Next]_vars

(***************************************************************************)
(* Properties.  ret holds an operation's return in the state right after   *)
(* it, so an invariant about ret speaks of the moment of the return.       *)
(***************************************************************************)
\* tags.get(key, 'N/A')
Tag(tags, key) == IF key \in DOMAIN tags THEN tags[key] ELSE "N/A"

Last(seq) == seq[Len(seq)]

\* the version numbers (as the strings of the records) an enumeration returned
ListedVersions(listed) == {listed[i].version : i \in 2..Len(listed)}

\* C1: when rollback_to_version(R, V, reason) returns True for a numbered
\* version V of R and no other session took a step meanwhile, the text of R's
\* draft is the text of V, and R has one new version, tagged RollbackTo = V.
C1_RollbackRestores ==
    (ret.op = "rollback" /\ ret.val = "True" /\ ret.solo /\ ret.args.target_version # "DRAFT")
    => /\ Named(versions, ret.id, ret.args.target_version) # {}
       /\ \A k \in Named(versions, ret.id, ret.args.target_version) :
             FirstText(draft[ret.id]) = FirstText(versions[ret.id][k].variants)
       /\ Len(versions[ret.id]) = ret.nver[ret.id] + 1
       /\ Tag(Last(versions[ret.id]).tags, "RollbackTo") = ret.args.target_version

\* a rollback to version 1 of the two-variant prompt has replaced the draft's text
C1_Witness ==
    /\ ret.op = "rollback" /\ ret.val = "True" /\ ret.solo
    /\ ret.args.target_version = "1"
    /\ Len(versions[ret.id]) = 4
    /\ FirstText(draft[ret.id]) = TextB
    /\ Tag(Last(versions[ret.id]).tags, "RollbackTo") = "1"

\* C2: when promote_version returns True and no other session took a step
\* meanwhile, the destination's draft text is the text the source draft had,
\* the destination has exactly one new version, which holds that text, and
\* the read-back found the two texts equal.
C2_PromotionCopies ==
    (ret.op = "promote" /\ ret.val = "True" /\ ret.solo)
    => /\ ret.target_id = param[PathOf(ret.args.to_env)]
       /\ FirstText(draft[ret.target_id]) = ret.content
       /\ Len(versions[ret.target_id]) = ret.nver[ret.target_id] + 1
       /\ FirstText(Last(versions[ret.target_id]).variants) = ret.content
       /\ ret.verification = "successful"

\* a promotion from the dev prompt to the prod prompt, whose text differed
C2_Witness ==
    /\ ret.op = "promote" /\ ret.val = "True" /\ ret.solo
    /\ ret.id = "P1" /\ ret.target_id = "P2"
    /\ ret.content = TextA
    /\ FirstText(draft["P2"]) = TextA
    /\ Len(versions["P2"]) = 2

\* the enumeration follows directly a create_tagged_version of the same
\* session that returned a version and was not interleaved with
AfterCreate ==
    /\ ret.op = "list"
    /\ ret.prev.op = "create" /\ ret.prev.val # "None" /\ ret.prev.solo

\* C3 as stated: the enumeration that follows a successful
\* create_tagged_version(R, C) has a record of the new version whose content
\* is C (here: even when every read of the enumeration succeeds).
C3_Original ==
    (AfterCreate /\ ret.stage = "" /\ ret.missed \cap Existing(versions, ret.id) = {})
    => \E i \in 2..Len(ret.listed) :
          /\ ret.listed[i].version = ret.prev.val
          /\ ret.listed[i].content = ret.prev.args.content

\* C3 amended: the enumeration that follows a successful
\* create_tagged_version(R, C), when its reads of the draft and of the new
\* version succeed, has a record of the new version if its number is at most
\* 20 and none if it is above; the record's content is the first 100
\* characters of C followed by "...".
C3_ListedSummary ==
    (AfterCreate /\ ret.stage = "")
    => \A k \in Named(versions, ret.id, ret.prev.val) :
          /\ (k <= max_attempts /\ k \notin ret.missed)
               => \E i \in 2..Len(ret.listed) :
                     /\ ret.listed[i].version = ret.prev.val
                     /\ ret.listed[i].content =
                          SubSeq(ret.prev.args.content, 1,
                                 Min(Len(ret.prev.args.content), SummaryLen)) \o <<".", ".", ".">>
          /\ k > max_attempts => ret.prev.val \notin ListedVersions(ret.listed)

\* the new version of a content of 101 characters is listed with 103
C3_Witness ==
    /\ AfterCreate /\ ret.stage = ""
    /\ Len(ret.prev.args.content) = SummaryLen + 1
    /\ \E i \in 2..Len(ret.listed) :
          /\ ret.listed[i].version = ret.prev.val
          /\ Len(ret.listed[i].content) = SummaryLen + 3

\* the prompt of the enumeration has the versions 1..n, n at most 20, and
\* every remote read of the enumeration succeeded
AllRead ==
    /\ ret.op = "list" /\ ret.stage = ""
    /\ Existing(versions, ret.id) = 1..Len(versions[ret.id])
    /\ Len(versions[ret.id]) <= max_attempts
    /\ ret.missed \cap Existing(versions, ret.id) = {}
    /\ ret.untagged = {}

\* C4: for a prompt with the versions 1..n (n at most 20), all reads
\* succeeding, the enumeration returns n+1 records: the draft first, labelled
\* DRAFT and without tags, then the versions 1..n in ascending order.
C4_DraftFirstThenAscending ==
    AllRead
    => /\ Len(ret.listed) = Len(versions[ret.id]) + 1
       /\ ret.listed[1].version = "DRAFT"
       /\ ret.listed[1].tags = NoTags
       /\ \A k \in 1..Len(versions[ret.id]) : ret.listed[k + 1].version = ToString(k)

\* a prompt with 20 versions is listed in 21 records
C4_Witness ==
    /\ AllRead
    /\ Len(versions[ret.id]) = max_attempts
    /\ Len(ret.listed) = max_attempts + 1
    /\ ret.listed[max_attempts + 1].version = "20"

C6_AppendOnly ==
    [][\A r \in Resources :
          /\ Len(versions'[r]) >= Len(versions[r])
          /\ \A k \in 1..Len(versions[r]) :
                /\ versions'[r][k].variants = versions[r][k].variants
                /\ versions'[r][k].deleted = versions[r][k].deleted]_vars

\* two operations have added two versions to the prompt that had 20
C6_Witness ==
    /\ Len(versions["P1"]) = max_attempts + 2
    /\ FirstText(versions["P1"][max_attempts + 1].variants) # FirstText(Last(versions["P1"]).variants)

\* create_tagged_version returned None after the draft was written, with no
\* other session taking a step meanwhile
FailedAfterWrite ==
    /\ ret.op = "create" /\ ret.val = "None" /\ ret.solo
    /\ ret.stage \in {"version", "tag"}

\* C7 as stated: when create_tagged_version fails after the draft overwrite
\* (at the version creation or at the tag attachment), the draft holds the
\* new content and no version has been created.
C7_Original ==
    FailedAfterWrite
    => /\ FirstText(draft[ret.id]) = ret.args.content
       /\ Len(versions[ret.id]) = ret.nver[ret.id]

\* C7 amended: when it fails at the version creation, the draft holds the new
\* content and no version has been created; when it fails at the tag
\* attachment, the draft holds the new content and one version has been
\* created, which holds the new content and has no tags.
C7_FailureWindow ==
    FailedAfterWrite
    => /\ FirstText(draft[ret.id]) = ret.args.content
       /\ ret.stage = "version" => Len(versions[ret.id]) = ret.nver[ret.id]
       /\ ret.stage = "tag"
            => /\ Len(versions[ret.id]) = ret.nver[ret.id] + 1
               /\ FirstText(Last(versions[ret.id]).variants) = ret.args.content
               /\ Last(versions[ret.id]).tags = NoTags

\* a failed tag attachment has left a version without tags
C7_Witness ==
    /\ FailedAfterWrite /\ ret.stage = "tag"
    /\ Len(versions[ret.id]) = ret.nver[ret.id] + 1
    /\ Last(versions[ret.id]).tags = NoTags
    /\ FirstText(draft[ret.id]) = TextLong

\* C8: a promote_version whose lookup of the destination's identifier fails
\* returns False, and neither its first read nor the failed lookup has changed
\* the parameter store or any prompt's draft, versions or tags.
C8_NoPartialPromotion ==
    [][\A p \in Procs :
          /\ (pc[p] = "menu" /\ pc'[p] = "p_param") => UNCHANGED store
          /\ (pc[p] = "p_param" /\ pc'[p] = "menu")
               => /\ ret'.op = "promote" /\ ret'.val = "False"
                  /\ UNCHANGED store]_vars

\* a promotion has returned False at the lookup
C8_Witness ==
    /\ ret.op = "promote" /\ ret.stage = "param" /\ ret.val = "False"
    /\ ret.target_id = "None"
    /\ Counts = ret.nver

\* C9: a promote_version all of whose remote calls succeed returns True, also
\* when the text read back differs from the source content.
C9_MismatchStillSuccess ==
    (ret.op = "promote" /\ ret.stage = "") => ret.val = "True"

\* a promotion returned True although another session had rewritten the
\* destination's draft before the read-back
C9_Witness ==
    /\ ret.op = "promote" /\ ret.stage = "" /\ ret.val = "True"
    /\ ret.verification = "warning"
    /\ FirstText(draft[ret.target_id]) # ret.content

\* C10: the version a successful create_tagged_version returns carries the
\* caller's version tag, and holds the caller's content whenever no other
\* session took a step meanwhile; with two interleaved calls it may hold the
\* other caller's content (C10_Witness).
C10_OwnTagAnyContent ==
    (ret.op = "create" /\ ret.val \notin {"None", "raise"})
    => /\ Named(versions, ret.id, ret.val) # {}
       /\ \A k \in Named(versions, ret.id, ret.val) :
             /\ Tag(versions[ret.id][k].tags, "Version") = ret.args.version_tag
             /\ ret.solo => FirstText(versions[ret.id][k].variants) = ret.args.content

\* lost update: both calls returned a version; the one tagged v1.0.0, whose
\* caller wrote TextB, holds TextLong, the content of the caller of v1.1.0
C10_Witness ==
    \E r \in Resources : \E k \in 1..(Len(versions[r]) - 1) :
        /\ Tag(versions[r][k].tags, "Version") = "v1.0.0"
        /\ Tag(versions[r][k].tags, "CreatedDate") = Today
        /\ FirstText(versions[r][k].variants) = TextLong
        /\ Tag(versions[r][k + 1].tags, "Version") = "v1.1.0"
        /\ Tag(versions[r][k + 1].tags, "CreatedDate") = Today
        /\ FirstText(versions[r][k + 1].variants) = TextLong

\* C11 as stated: when a remote call of an operation has failed, the
\* operation ends by returning None, an empty list or False; the failure never
\* leaves the operation as an exception.
C11_Original ==
    (ret.op # "none" /\ ret.stage # "")
    => /\ ret.val \in {"None", "False", "list"}
       /\ ret.val = "list" => ret.listed = <<>>

(***************************************************************************)
(* create_tagged_version called with an environment argument: a caller of  *)
(* the controller's interface (the menu never passes one).                 *)
(***************************************************************************)
\* the environment arguments of a direct call: none, a supported environment
\* or a name ENVIRONMENT_CONFIG does not have
EnvironmentArgs == {"None", "dev", "prod", "staging"}

DirectCreateGet(p) == CreateCall(p, EnvironmentArgs)

\* one caller, on the prompts of the first scenarios
DirectInit ==
    /\ Init
    /\ param = Separate
    /\ versions["P1"] = Gapped

DirectNext ==
    \E p \in Procs :
        \/ get_prompt_id_from_environment(p)
        \/ DirectCreateGet(p)
        \/ CreateUpdate(p)
        \/ CreateVersion(p)
        \/ CreateTag(p)

DirectSpec == DirectInit /\ [][DirectNext]_vars

\* the keys create_tagged_version sets itself
ExplicitKeys == {"Version", "CreatedDate", "CreatedTime", "SourceEnvironment"}

\* C12: the version a successful create_tagged_version(R, C, environment=E,
\* version_tag=L) returns carries the default tags of E (Environment and
\* Status, none when E is no configured environment), Version = L,
\* CreatedDate, CreatedTime and SourceEnvironment, and no other key; a default
\* tag whose key is one of the explicit keys does not show.
C12_DefaultsThenExplicit ==
    (ret.op = "create" /\ ret.val \notin {"None", "raise"})
    => \A k \in Named(versions, ret.id, ret.val) :
          LET tags == versions[ret.id][k].tags
              E == ret.args.environment
              defaults == IF E \in DOMAIN ENVIRONMENT_CONFIG
                             THEN ENVIRONMENT_CONFIG[E].default_tags ELSE NoTags
          IN  /\ DOMAIN tags = DOMAIN defaults \cup ExplicitKeys
              /\ \A key \in DOMAIN defaults \ ExplicitKeys : tags[key] = defaults[key]
              /\ tags["Version"] = ret.args.version_tag
              /\ tags["CreatedDate"] = Today
              /\ tags["CreatedTime"] = Now
              /\ tags["SourceEnvironment"] = upper(ret.self_environment)
              /\ E \in SUPPORTED_ENVIRONMENTS => {"Environment", "Status"} \subseteq DOMAIN tags

\* a dev controller has created a version with environment="prod": it carries
\* PROD and ACTIVE, and DEV as its source
C12_Witness ==
    /\ ret.op = "create" /\ ret.val = "4"
    /\ ret.self_environment = "dev" /\ ret.args.environment = "prod"
    /\ Last(versions[ret.id]).tags =
          [Environment |-> "PROD", Status |-> "ACTIVE", Version |-> ret.args.version_tag,
           CreatedDate |-> Today, CreatedTime |-> Now, SourceEnvironment |-> "DEV"]

\* the Environment tags of the environments' default tag sets
DefaultEnvironmentTags ==
    {ENVIRONMENT_CONFIG[e].default_tags.Environment : e \in SUPPORTED_ENVIRONMENTS}

\* C13 as stated: every version a rollback_to_version has created carries
\* Environment = ROLLBACK when the operation ends.
C13_Original ==
    (ret.op = "rollback" /\ ret.new_version # 0)
    => Tag(versions[ret.id][ret.new_version].tags, "Environment") = "ROLLBACK"

\* C13 amended: the version a rollback_to_version has created carries
\* Environment = ROLLBACK when the operation returns True, for a dev and for a
\* prod controller; until the tag attachment, and for good when the tag
\* attachment fails, it carries no tag at all; it never carries DEV or PROD
\* as its Environment.
C13_RollbackEnvironment ==
    /\ (ret.op = "rollback" /\ ret.new_version # 0)
       => LET tags == versions[ret.id][ret.new_version].tags
          IN  /\ ret.val = "True" => Tag(tags, "Environment") = "ROLLBACK"
              /\ ret.val # "True" => tags = NoTags
              /\ Tag(tags, "Environment") \notin DefaultEnvironmentTags
    /\ \A p \in Procs :
          pc[p] = "r_tag" => versions[loc[p].id][loc[p].new_version].tags = NoTags

\* a prod controller has rolled back: the new version is tagged ROLLBACK,
\* with PROD as its source only
C13_Witness ==
    /\ ret.op = "rollback" /\ ret.val = "True" /\ ret.self_environment = "prod"
    /\ Tag(versions[ret.id][ret.new_version].tags, "Environment") = "ROLLBACK"
    /\ Tag(versions[ret.id][ret.new_version].tags, "SourceEnvironment") = "PROD"

\* the prompt whose new version the tag step of session p tags
TaggedPrompt(p) == IF pc[p] = "p_tag" THEN loc[p].target_id ELSE loc[p].id

\* C14: the tags of a numbered version change only once, from none, in the
\* tag step of the operation that created the version; afterwards, and on
\* every version the operations found, they are never changed or removed; the
\* tag set of every draft is empty in every state.
C14_TagsWriteOnce ==
    /\ [](\A r \in Resources : draft_tags[r] = NoTags)
    /\ [][\A r \in Resources : \A k \in 1..Len(versions[r]) :
             versions'[r][k].tags # versions[r][k].tags
             => /\ versions[r][k].tags = NoTags
                /\ \E p \in Procs :
                      /\ pc[p] \in {"c_tag", "r_tag", "p_tag"}
                      /\ pc'[p] # pc[p]
                      /\ TaggedPrompt(p) = r
                      /\ loc[p].new_version = k]_vars

\* a prompt has two versions, tagged by the create and by the rollback that
\* made them, behind the versions found; its draft has no tags
C14_Witness ==
    \E r \in Resources :
        /\ Len(versions[r]) >= 3
        /\ Tag(versions[r][Len(versions[r]) - 1].tags, "CreatedDate") = Today
        /\ Tag(Last(versions[r]).tags, "RollbackDate") = Today
        /\ Tag(versions[r][1].tags, "Version") = "v0.0.1"
        /\ draft_tags[r] = NoTags

(***************************************************************************)
(* The text-grouping pipeline: main_process_converse                       *)
(* (fixed_main_process.py) and format_translation_document (utils.py).     *)
(*                                                                         *)
(* A text is a sequence of symbols: characters, and words no operation     *)
(* looks into.  The reply of the model is a text whose symbols are the     *)
(* tokens of its JSON and its markers: the fence of three backticks, the   *)
(* word json, white space, brackets, literals and prose.  Python values    *)
(* are records of one shape: t is the type, s the text of a str or int,    *)
(* keys and items the keys and values of a dict, items the elements of a   *)
(* list.                                                                   *)
(***************************************************************************)
\* the marker of code blocks, three backticks, as one symbol
Fence == "<fence>"

Whitespace == {" ", "\n"}

PyNone == [t |-> "None", s |-> <<>>, keys |-> <<>>, items |-> <<>>]

Str(s) == [t |-> "str", s |-> s, keys |-> <<>>, items |-> <<>>]

Number(s) == [t |-> "int", s |-> s, keys |-> <<>>, items |-> <<>>]

List(items) == [t |-> "list", s |-> <<>>, keys |-> <<>>, items |-> items]

Dict(keys, items) == [t |-> "dict", s |-> <<>>, keys |-> keys, items |-> items]

\* key in d
Has(d, key) == \E i \in 1..Len(d.keys) : d.keys[i] = key

\* d[key]
Get(d, key) == d.items[CHOOSE i \in 1..Len(d.keys) : d.keys[i] = key]

\* d[key] = v
Put(d, key, v) ==
    IF Has(d, key)
    THEN [d EXCEPT !.items[CHOOSE i \in 1..Len(d.keys) : d.keys[i] = key] = v]
    ELSE [d EXCEPT !.keys = Append(@, key), !.items = Append(@, v)]

\* str.strip()
RECURSIVE strip(_)
strip(text) ==
    IF text = <<>> THEN text
    ELSE IF Head(text) \in Whitespace THEN strip(Tail(text))
    ELSE IF text[Len(text)] \in Whitespace THEN strip(SubSeq(text, 1, Len(text) - 1))
    ELSE text

\* the decimal digits of a natural number
RECURSIVE Digits(_)
Digits(n) ==
    LET d == <<"0", "1", "2", "3", "4", "5", "6", "7", "8", "9">>[(n % 10) + 1]
    IN  IF n < 10 THEN <<d>> ELSE Append(Digits(n \div 10), d)

\* the format specification 0wd: zeros in front up to the width w
RECURSIVE ZeroPad(_, _)
ZeroPad(digits, w) == IF Len(digits) >= w THEN digits ELSE ZeroPad(<<"0">> \o digits, w)

\* str(v), as far as the pipeline looks at it: the text of a str or an int,
\* and a text that is not blank for every other value
PyStr(v) ==
    IF v.t \in {"str", "int"} THEN v.s
    ELSE IF v.t = "None" THEN <<"None">>
    ELSE IF v.t = "list" THEN <<"[", "]">>
    ELSE <<"{", "}">>

(***************************************************************************)
(* json.loads on the tokens of a text.                                     *)
(***************************************************************************)
\* the string literals of the replies and the str each one denotes
StringLiterals ==
    [tok \in {"\"a\"", "\"b\"", "\" \"", "\"groups\""} |->
        IF tok = "\"a\"" THEN <<"a">>
        ELSE IF tok = "\"b\"" THEN <<"b">>
        ELSE IF tok = "\" \"" THEN <<" ">>
        ELSE <<"groups">>]

NumberLiterals == {"1", "2"}

JSONDecodeError == [ok |-> FALSE, v |-> PyNone, next |-> 0]

Parsed(v, next) == [ok |-> TRUE, v |-> v, next |-> next]

\* the first position from i on that holds no white space
RECURSIVE SkipWhitespace(_, _)
SkipWhitespace(toks, i) ==
    IF i <= Len(toks) /\ toks[i] \in Whitespace THEN SkipWhitespace(toks, i + 1) ELSE i

RECURSIVE ParseValue(_, _)
RECURSIVE ParseElements(_, _, _)
RECURSIVE ParseMembers(_, _, _)

\* one JSON value from position i0 on: the value and the position behind it
ParseValue(toks, i0) ==
    LET i == SkipWhitespace(toks, i0)
    IN  IF i > Len(toks) THEN JSONDecodeError
        ELSE IF toks[i] \in DOMAIN StringLiterals THEN Parsed(Str(StringLiterals[toks[i]]), i + 1)
        ELSE IF toks[i] \in NumberLiterals THEN Parsed(Number(<<toks[i]>>), i + 1)
        ELSE IF toks[i] = "["
             THEN LET j == SkipWhitespace(toks, i + 1)
                  IN  IF j <= Len(toks) /\ toks[j] = "]" THEN Parsed(List(<<>>), j + 1)
                      ELSE ParseElements(toks, i + 1, <<>>)
        ELSE IF toks[i] = "{"
             THEN LET j == SkipWhitespace(toks, i + 1)
                  IN  IF j <= Len(toks) /\ toks[j] = "}" THEN Parsed(Dict(<<>>, <<>>), j + 1)
                      ELSE ParseMembers(toks, i + 1, Dict(<<>>, <<>>))
        ELSE JSONDecodeError

\* the elements of an array after "[" or ",", up to "]"
ParseElements(toks, i, acc) ==
    LET r == ParseValue(toks, i)
        j == SkipWhitespace(toks, r.next)
    IN  IF ~r.ok \/ j > Len(toks) THEN JSONDecodeError
        ELSE IF toks[j] = "]" THEN Parsed(List(Append(acc, r.v)), j + 1)
        ELSE IF toks[j] = "," THEN ParseElements(toks, j + 1, Append(acc, r.v))
        ELSE JSONDecodeError

\* the members of an object after "{" or ",", up to "}"; a later member
\* with the same key replaces the earlier one
ParseMembers(toks, i0, acc) ==
    LET i == SkipWhitespace(toks, i0)
        c == SkipWhitespace(toks, i + 1)
    IN  IF c > Len(toks) \/ toks[i] \notin DOMAIN StringLiterals \/ toks[c] # ":"
        THEN JSONDecodeError
        ELSE LET r == ParseValue(toks, c + 1)
                 j == SkipWhitespace(toks, r.next)
                 d == Put(acc, StringLiterals[toks[i]][1], r.v)
             IN  IF ~r.ok \/ j > Len(toks) THEN JSONDecodeError
                 ELSE IF toks[j] = "}" THEN Parsed(d, j + 1)
                 ELSE IF toks[j] = "," THEN ParseMembers(toks, j + 1, d)
                 ELSE JSONDecodeError

\* json.loads(text): one value and nothing but white space behind it
json_loads(toks) ==
    LET r == ParseValue(toks, 1)
    IN  IF r.ok /\ SkipWhitespace(toks, r.next) > Len(toks) THEN r ELSE JSONDecodeError

(***************************************************************************)
(* main_process_converse, step 4: from the reply to the groups.            *)
(***************************************************************************)
\* text.find(marker, start): the first position from start on where the
\* marker begins, 0 when there is none (positions count from 1)
Find(text, marker, start) ==
    LET hits == {i \in start..(Len(text) - Len(marker) + 1) :
                    SubSeq(text, i, i + Len(marker) - 1) = marker}
    IN  IF hits = {} THEN 0 ELSE CHOOSE i \in hits : \A j \in hits : i <= j

\* the marker of a JSON code block
JsonMarker == <<Fence, "json">>

\* the text behind the first marker, up to the next fence if there is one
Fenced(text, marker) ==
    LET json_start == Find(text, marker, 1) + Len(marker)
        json_end == Find(text, <<Fence>>, json_start)
    IN  IF json_end # 0 THEN strip(SubSeq(text, json_start, json_end - 1))
        ELSE strip(SubSeq(text, json_start, Len(text)))

\* json_text that looks for any fence before the marker of a JSON block
json_text_any(response) ==
    IF Find(response, <<Fence>>, 1) # 0 THEN Fenced(response, <<Fence>>)
    ELSE strip(response)

\* the text handed to json.loads
json_text(response) ==
    IF Find(response, JsonMarker, 1) # 0 THEN Fenced(response, JsonMarker)
    ELSE IF Find(response, <<Fence>>, 1) # 0 THEN Fenced(response, <<Fence>>)
    ELSE strip(response)

\* the text of the group made of an empty reply, as one symbol
Placeholder == <<"no response">>

\* the one group of the fallbacks
General(text) ==
    List(<< Dict(<<"category", "texts">>, <<Str(<<"General">>), List(<<Str(text)>>)>>) >>)

\* the value of grouped_texts after step 4
Grouping(response) ==
    IF response = <<>> \/ strip(response) = <<>> THEN General(Placeholder)
    ELSE LET parsed_result == json_loads(json_text(response))
         IN  IF ~parsed_result.ok THEN General(response)
             ELSE IF parsed_result.v.t = "list"
                  THEN List([i \in 1..Len(parsed_result.v.items) |->
                               Dict(<<"category", "texts">>,
                                    <<Str(<<"Group", " ">> \o Digits(i)),
                                      parsed_result.v.items[i]>>)])
             ELSE IF parsed_result.v.t = "dict" /\ Has(parsed_result.v, "groups")
                  THEN Get(parsed_result.v, "groups")
             ELSE General(PyStr(parsed_result.v))

(***************************************************************************)
(* format_translation_document                                             *)
(***************************************************************************)
TypeError == [ok |-> FALSE, items |-> <<>>, text |-> <<>>, rows |-> <<>>]

\* what a for loop or join gets out of a value: the elements of a list, the
\* characters of a str, the keys of a dict
Iterate(v) ==
    IF v.t = "list" THEN [TypeError EXCEPT !.ok = TRUE, !.items = v.items]
    ELSE IF v.t = "str"
         THEN [TypeError EXCEPT !.ok = TRUE, !.items = [i \in 1..Len(v.s) |-> Str(<<v.s[i]>>)]]
    ELSE IF v.t = "dict"
         THEN [TypeError EXCEPT !.ok = TRUE, !.items = [i \in 1..Len(v.keys) |-> Str(<<v.keys[i]>>)]]
    ELSE TypeError

RECURSIVE Joined(_, _)
Joined(sep, items) ==
    IF items = <<>> THEN <<>>
    ELSE IF Len(items) = 1 THEN items[1].s
    ELSE items[1].s \o sep \o Joined(sep, Tail(items))

\* sep.join(v)
Join(sep, v) ==
    LET it == Iterate(v)
    IN  IF it.ok /\ \A i \in 1..Len(it.items) : it.items[i].t = "str"
        THEN [TypeError EXCEPT !.ok = TRUE, !.text = Joined(sep, it.items)]
        ELSE TypeError

\* group_text of one group
GroupText(group) ==
    IF group.t = "dict"
    THEN LET head == IF Has(group, "category")
                        THEN <<"[">> \o PyStr(Get(group, "category")) \o <<"]", "\n">>
                        ELSE <<>>
         IN  IF Has(group, "texts")
             THEN LET j == Join(<<"\n">>, Get(group, "texts"))
                  IN  IF j.ok THEN [j EXCEPT !.text = head \o @] ELSE TypeError
             ELSE IF Has(group, "content")
                  THEN IF Get(group, "content").t = "str"
                       THEN [TypeError EXCEPT !.ok = TRUE, !.text = head \o Get(group, "content").s]
                       ELSE TypeError
             ELSE [TypeError EXCEPT !.ok = TRUE, !.text = head]
    ELSE IF group.t = "str" THEN [TypeError EXCEPT !.ok = TRUE, !.text = group.s]
    ELSE [TypeError EXCEPT !.ok = TRUE, !.text = PyStr(group)]

\* group.get(key, default) of a dict, the default for any other group
GetOr(group, key, default) ==
    IF group.t = "dict" /\ Has(group, key) THEN Get(group, key) ELSE default

\* the row of the i-th group
Row(i, group, group_text) ==
    [ID |-> Str(<<"T">> \o ZeroPad(Digits(i), 3)),
     Category |-> GetOr(group, "category", Str(<<"Group_">> \o Digits(i))),
     Priority |-> GetOr(group, "priority", Str(<<"medium">>)),
     Location |-> GetOr(group, "location", Str(<<>>)),
     Description |-> GetOr(group, "description", Str(<<>>)),
     Original_Text_Korean |-> Str(strip(group_text)),
     Translated_Text_English |-> Str(<<>>),
     Notes |-> Str(<<>>),
     Status |-> Str(<<"Pending">>)]

\* FormatLoop that appends a row for every group
RECURSIVE FormatLoopAll(_, _, _)
FormatLoopAll(groups, i, rows) ==
    IF i > Len(groups) THEN [TypeError EXCEPT !.ok = TRUE, !.rows = rows]
    ELSE LET g == GroupText(groups[i])
         IN  IF ~g.ok THEN TypeError
             ELSE FormatLoopAll(groups, i + 1, Append(rows, Row(i, groups[i], g.text)))

\* the loop over enumerate(grouped_texts, 1) from the i-th group on
RECURSIVE FormatLoop(_, _, _)
FormatLoop(groups, i, rows) ==
    IF i > Len(groups) THEN [TypeError EXCEPT !.ok = TRUE, !.rows = rows]
    ELSE LET g == GroupText(groups[i])
         IN  IF ~g.ok THEN TypeError
             ELSE FormatLoop(groups, i + 1,
                             IF strip(g.text) # <<>>
                                THEN Append(rows, Row(i, groups[i], g.text)) ELSE rows)

\* the rows of the data frame, or the TypeError that ends the call
format_translation_document(groups) ==
    LET it == Iterate(groups)
    IN  IF it.ok THEN FormatLoop(it.items, 1, <<>>) ELSE TypeError

(***************************************************************************)
(* The replies and the groups the pipeline may be given.                   *)
(***************************************************************************)
\* groups in one call of format_translation_document
MaxGroups == 3

\* what a reply may hold before its block: nothing, prose, a block of its own
Prefixes == { <<>>, <<"x", "\n">>, <<Fence, "x", Fence, "\n">> }

\* how the block opens: as JSON, as a plain block, or not at all
Openings == { <<Fence, "json", "\n">>, <<Fence, "\n">>, <<>> }

\* the body: arrays of 0, 1 and 2 elements (strings, arrays, a number),
\* a cut array, a string, a number, objects with and without groups, prose,
\* white space, nothing
Bodies ==
    { <<"[", "]">>,
      <<"[", "\"a\"", "]">>,
      <<"[", "\"a\"", ",", " ", "\"b\"", "]">>,
      <<"[", "[", "\"a\"", "]", ",", "[", "\"b\"", ",", "\"a\"", "]", "]">>,
      <<"[", "1", ",", "\"a\"", "]">>,
      <<"[", "\"a\"", ",">>,
      <<"\"a\"">>,
      <<"2">>,
      <<"{", "}">>,
      <<"{", "\"groups\"", ":", "[", "\"a\"", ",", "\" \"", "]", "}">>,
      <<"x">>,
      <<" ">>,
      <<>> }

\* how the block closes
Closings == { <<"\n", Fence>>, <<>> }

\* what follows the block: nothing, prose, a second JSON block
Suffixes == { <<>>, <<"\n", "x">>, <<"\n", Fence, "json", "[", "]", Fence>> }

Replies ==
    { pre \o open \o body \o close \o post :
        pre \in Prefixes, open \in Openings, body \in Bodies,
        close \in Closings, post \in Suffixes }

\* groups of the shapes the loop tells apart: a dict with category and texts,
\* with blank texts only, with content; a str, a blank str; a number; a dict
\* whose texts are no strings
GroupSamples ==
    { Dict(<<"category", "texts">>, <<Str(<<"c">>), List(<<Str(<<"a">>), Str(<<"b">>)>>)>>),
      Dict(<<"texts">>, <<List(<<Str(<<" ">>)>>)>>),
      Dict(<<"content", "priority">>, <<Str(<<"a">>), Str(<<"high">>)>>),
      Str(<<"a">>),
      Str(<<" ">>),
      Number(<<"1">>),
      Dict(<<"texts">>, <<Number(<<"1">>)>>) }

GroupLists == UNION { [1..n -> GroupSamples] : n \in 0..MaxGroups }

(***************************************************************************)
(* The pipeline: main_process_converse from its step 4 on, and             *)
(* format_translation_document called on its own.                          *)
(***************************************************************************)
\* the version controller is another program: it takes no step here
controller == <<store, session, pc, loc, ret, nOps>>

TranslateInit ==
    /\ param = Separate
    /\ draft = [r \in Resources |-> <<Variant("a", TextA)>>]
    /\ draft_tags = [r \in Resources |-> NoTags]
    /\ versions = [r \in Resources |-> <<>>]
    /\ environment = [p \in Procs |-> "dev"]
    /\ prompt_id = [p \in Procs |-> "None"]
    /\ pc = [p \in Procs |-> "exit"]
    /\ loc = [p \in Procs |-> Idle]
    /\ ret = Idle
    /\ nOps = 0
    /\ translation_data = <<>>
    /\ \/ /\ claude_response \in Replies
          /\ grouped_texts = PyNone
          /\ tpc = "parse"
       \/ /\ claude_response = <<>>
          /\ grouped_texts \in {List(groups) : groups \in GroupLists}
          /\ tpc = "format"

\* step 4 of main_process_converse, up to len(grouped_texts)
ParseResponse ==
    /\ tpc = "parse"
    /\ grouped_texts' = Grouping(claude_response)
    /\ tpc' = IF Iterate(Grouping(claude_response)).ok THEN "workflow" ELSE "caught"
    /\ UNCHANGED <<controller, claude_response, translation_data>>

\* step 5: create_translation_workflow formats and saves; a TypeError of the
\* formatting and an error of the saving end in the except clause of
\* main_process_converse, which returns None, None
create_translation_workflow ==
    /\ tpc = "workflow"
    /\ LET df == format_translation_document(grouped_texts)
       IN  /\ translation_data' = df.rows
           /\ \/ tpc' = IF df.ok THEN "returned" ELSE "caught"
              \/ tpc' = "caught"
    /\ UNCHANGED <<controller, claude_response, grouped_texts>>

\* format_translation_document(grouped_texts) called by another caller
FormatCall ==
    /\ tpc = "format"
    /\ LET df == format_translation_document(grouped_texts)
       IN  /\ translation_data' = df.rows
           /\ tpc' = IF df.ok THEN "formatted" ELSE "raised"
    /\ UNCHANGED <<controller, claude_response, grouped_texts>>

TranslateNext ==
    \/ ParseResponse
    \/ create_translation_workflow
    \/ FormatCall

TranslateSpec == TranslateInit /\ [][TranslateNext]_vars

\* step 4 of main_process_converse has set grouped_texts
AfterParse == tpc \in {"workflow", "returned", "caught"}

\* C15: when the text between the first JSON marker of the reply and the
\* next fence is a JSON array of n elements, step 4 yields n groups, the i-th
\* with category "Group i" and the i-th element as its texts; an empty or
\* blank reply yields the one group General that holds the placeholder.
C15_FencedListGroups ==
    AfterParse
    => LET open == Find(claude_response, JsonMarker, 1)
           close == IF open = 0 THEN 0 ELSE Find(claude_response, <<Fence>>, open + 2)
           body == json_loads(SubSeq(claude_response, open + 2, close - 1))
       IN  /\ (open # 0 /\ close # 0 /\ body.ok /\ body.v.t = "list")
              => /\ grouped_texts.t = "list"
                 /\ Len(grouped_texts.items) = Len(body.v.items)
                 /\ \A i \in 1..Len(body.v.items) :
                       /\ grouped_texts.items[i].keys = <<"category", "texts">>
                       /\ Get(grouped_texts.items[i], "category") =
                             Str(<<"Group", " ">> \o Digits(i))
                       /\ Get(grouped_texts.items[i], "texts") = body.v.items[i]
           /\ (\A i \in 1..Len(claude_response) : claude_response[i] \in Whitespace)
              => /\ grouped_texts.t = "list"
                 /\ Len(grouped_texts.items) = 1
                 /\ Get(grouped_texts.items[1], "category") = Str(<<"General">>)
                 /\ Get(grouped_texts.items[1], "texts") = List(<<Str(Placeholder)>>)

\* a reply with a plain block, then the JSON block [["a"],["b","a"]], then a
\* second JSON block has given the two groups of its first JSON block
C15_Witness ==
    /\ tpc = "workflow"
    /\ Find(claude_response, <<Fence>>, 1) # 0
    /\ Find(claude_response, <<Fence>>, 1) < Find(claude_response, JsonMarker, 1)
    /\ Find(claude_response, JsonMarker, Find(claude_response, JsonMarker, 1) + 1) # 0
    /\ Len(grouped_texts.items) = 2
    /\ grouped_texts.items[2].keys = <<"category", "texts">>
    /\ Get(grouped_texts.items[2], "category") = Str(<<"Group", " ", "2">>)
    /\ Get(grouped_texts.items[2], "texts") = List(<<Str(<<"b">>), Str(<<"a">>)>>)

\* format_translation_document has returned its rows
Formatted == tpc \in {"formatted", "returned"}

\* the positions of the groups whose text is not blank
Kept(groups) == {i \in 1..Len(groups) : strip(GroupText(groups[i]).text) # <<>>}

\* C16 as stated: the number of rows equals the number of groups, and the
\* i-th row has ID T and i in three digits, an empty translated text, empty
\* Notes and Status Pending.
C16_Original ==
    Formatted
    => /\ Len(translation_data) = Len(grouped_texts.items)
       /\ \A i \in 1..Len(translation_data) :
             /\ translation_data[i].ID = Str(<<"T">> \o ZeroPad(Digits(i), 3))
             /\ translation_data[i].Translated_Text_English = Str(<<>>)
             /\ translation_data[i].Notes = Str(<<>>)
             /\ translation_data[i].Status = Str(<<"Pending">>)

\* C16 amended: when the call returns, there is one row for every group
\* whose text is not blank, in the order of the groups, and none for the
\* others; the row of the i-th group of the input has ID T and i in three
\* digits, whatever groups before it were left out, an empty translated text,
\* empty Notes and Status Pending.
C16_RowPerNonBlankGroup ==
    Formatted
    => LET groups == grouped_texts.items
           kept == Kept(groups)
       IN  /\ Len(translation_data) = Cardinality(kept)
           /\ \A i \in kept :
                 LET row == translation_data[Cardinality({k \in kept : k <= i})]
                 IN  /\ row.ID = Str(<<"T">> \o ZeroPad(Digits(i), 3))
                     /\ row.Original_Text_Korean = Str(strip(GroupText(groups[i]).text))
                     /\ row.Translated_Text_English = Str(<<>>)
                     /\ row.Notes = Str(<<>>)
                     /\ row.Status = Str(<<"Pending">>)

\* three groups, the second a blank string: two rows, T001 and T003
C16_Witness ==
    /\ tpc = "formatted"
    /\ Len(grouped_texts.items) = 3
    /\ grouped_texts.items[2] = Str(<<" ">>)
    /\ Len(translation_data) = 2
    /\ translation_data[1].ID = Str(<<"T", "0", "0", "1">>)
    /\ translation_data[2].ID = Str(<<"T", "0", "0", "3">>)
    /\ translation_data[2].Status = Str(<<"Pending">>)

\* C17 as stated: a controller initialised with E resolves to the identifier
\* stored in the parameter-store record of E, and every failure of the lookup
\* gives None.
C17_Original ==
    ret.op = "resolve"
    => /\ ret.stage = ""
          => /\ ret.val = param[ENVIRONMENT_CONFIG[ret.self_environment].parameter_store_path]
             /\ prompt_id[ret.p] = ret.val
       /\ ret.stage # "" => ret.val = "None"

\* the labels of the three remote steps and their order in each operation
UpdateLabels == {"c_update", "r_update", "p_update"}

VersionLabels == {"c_version", "r_version", "p_version"}

TagLabels == {"c_tag", "r_tag", "p_tag"}

StepOrder ==
    { <<"c_update", "c_version">>, <<"c_version", "c_tag">>,
      <<"r_update", "r_version">>, <<"r_version", "r_tag">>,
      <<"p_update", "p_version">>, <<"p_version", "p_tag">> }

\* the prompt an operation with locals l writes, snapshots and tags
WrittenPrompt(l) == IF l.op = "promote" THEN l.target_id ELSE l.id

\* C18: an operation comes to its snapshot only from its own draft write,
\* with the draft of the prompt holding what it wrote, and to its tag
\* attachment only from its own snapshot, which has added one version to the
\* same prompt; the tags go to that version of that prompt; drafts change
\* only in draft writes and versions are added only in snapshots; the step
\* in which a remote call fails changes nothing and ends the operation.
C18_WriteSnapshotTag ==
    [][/\ \A p \in Procs :
             /\ (pc'[p] # pc[p] /\ pc'[p] \in VersionLabels)
                => /\ <<pc[p], pc'[p]>> \in StepOrder
                   /\ draft'[WrittenPrompt(loc'[p])] = loc'[p].variants
             /\ (pc'[p] # pc[p] /\ pc'[p] \in TagLabels)
                => LET r == WrittenPrompt(loc'[p])
                   IN  /\ <<pc[p], pc'[p]>> \in StepOrder
                       /\ Len(versions'[r]) = Len(versions[r]) + 1
                       /\ loc'[p].new_version = Len(versions'[r])
                       /\ versions'[r][loc'[p].new_version].variants = draft[r]
             /\ (pc'[p] # pc[p] /\ pc[p] \in TagLabels /\ versions' # versions)
                => LET r == WrittenPrompt(loc[p])
                       k == loc[p].new_version
                   IN  versions' = [versions EXCEPT ![r][k].tags = versions'[r][k].tags]
             /\ (pc'[p] # pc[p] /\ InCall(p) /\ ret'.op # "none" /\ ret'.stage # "")
                => /\ pc'[p] \in {"menu", "exit"}
                   /\ UNCHANGED store
       /\ draft' # draft
          => \E p \in Procs : pc[p] \in UpdateLabels /\ pc'[p] \in VersionLabels
       /\ (\E r \in Resources : Len(versions'[r]) # Len(versions[r]))
          => \E p \in Procs : pc[p] \in VersionLabels /\ pc'[p] \in TagLabels]_vars

\* a promotion has written the draft of the destination, made its snapshot
\* and tagged it, and is at its read-back
C18_Witness ==
    \E p \in Procs :
        /\ pc[p] = "p_verify"
        /\ loc[p].target_id # loc[p].id
        /\ FirstText(draft[loc[p].target_id]) = loc[p].content
        /\ Len(versions[loc[p].target_id]) = loc[p].new_version
        /\ FirstText(Last(versions[loc[p].target_id]).variants) = loc[p].content
        /\ Tag(Last(versions[loc[p].target_id]).tags, "PromotedDate") = Today

\* C19: when the tag lookup of a version the enumeration has read fails,
\* the version is reported with an empty tag set, the enumeration returns
\* its list, and every later version up to 20 that it reads is reported too.
C19_TagFailureSwallowed ==
    (ret.op = "list" /\ ret.stage = "")
    => \A k \in ret.untagged :
          /\ \E i \in 2..Len(ret.listed) :
                /\ ret.listed[i].version = ToString(k)
                /\ ret.listed[i].tags = NoTags
          /\ \A j \in (k + 1)..max_attempts :
                (j \in Existing(versions, ret.id) /\ j \notin ret.missed)
                => \E i \in 2..Len(ret.listed) :
                      /\ ret.listed[i].version = ToString(j)
                      /\ (j \notin ret.untagged => ret.listed[i].tags = versions[ret.id][j].tags)

\* the tag lookup of version 1 failed: version 1, which has tags, is listed
\* without, and version 2 is listed with its own
C19_Witness ==
    /\ ret.op = "list" /\ ret.stage = ""
    /\ ret.untagged = {1}
    /\ versions[ret.id][1].tags # NoTags
    /\ ret.listed[2].version = "1" /\ ret.listed[2].tags = NoTags
    /\ Len(ret.listed) > 2
    /\ ret.listed[3].version = "2" /\ ret.listed[3].tags = versions[ret.id][2].tags
    /\ ret.listed[3].tags # NoTags

\* the version numbers an enumeration may report
Reportable == {ToString(k) : k \in 1..max_attempts}

\* C20: when a call of list_versions_with_tags has ended, by a return or by
\* the exception of a failed call, it has issued at most 20 probes, of the
\* numbers 1..20 in increasing order and each at most once, it hands back at
\* most 21 records, and no record is of a version above 20, even when the
\* prompt has one.
C20_BoundedEnumeration ==
    ret.op = "list"
    => /\ Len(ret.probed) <= max_attempts
       /\ \A i \in 1..Len(ret.probed) : ret.probed[i] \in 1..max_attempts
       /\ \A i, j \in 1..Len(ret.probed) : i < j => ret.probed[i] < ret.probed[j]
       /\ Len(ret.listed) <= max_attempts + 1
       /\ \A i \in 1..Len(ret.listed) :
             ret.listed[i].version \in Reportable \cup {"DRAFT"}
       /\ ret.stage # "" => ret.listed = <<>>

\* the prompt has version 21 and the enumeration hands back 21 records, the
\* draft and the versions 1..20, after 20 probes
C20_Witness ==
    /\ ret.op = "list" /\ ret.stage = ""
    /\ max_attempts + 1 \in Existing(versions, ret.id)
    /\ Len(ret.probed) = max_attempts
    /\ Len(ret.listed) = max_attempts + 1
    /\ ret.listed[max_attempts + 1].version = ToString(max_attempts)

\* the steps of rollback_to_version that follow the reads
RollbackWrites == {"r_update", "r_version", "r_tag"}

\* the target version of the rollback with locals l is a number that names no
\* version of the prompt in vers
NoSuchTarget(vers, l) ==
    /\ l.args.target_version # "DRAFT"
    /\ Named(vers, l.id, l.args.target_version) = {}

OneText(variants, text) == \A i \in 1..Len(variants) : variants[i].text = text

\* the two lists have the same variants but for their texts
SameVariantList(new, old) ==
    /\ Len(new) = Len(old)
    /\ \A i \in 1..Len(old) : new[i] = [old[i] EXCEPT !.text = new[i].text]

\* C22: the draft write of a rollback puts the text of the first variant of
\* the target (the target version, or the draft itself) into every variant of
\* the draft, and the draft write of a promotion puts the text of the first
\* variant of the source draft into every variant of the destination draft;
\* the variants written are the draft's own, with nothing but the text changed;
\* at a True return that no other session interleaved with, all variants of the
\* written draft hold the same text.
C22_OneTextEveryVariant ==
    /\ []((ret.op \in {"rollback", "promote"} /\ ret.val = "True" /\ ret.solo)
          => OneText(draft[WrittenPrompt(ret)], ret.content))
    /\ [][\A p \in Procs :
             /\ (pc[p] = "r_update" /\ pc'[p] = "r_version")
                => LET r == loc[p].id
                       target_version == loc[p].args.target_version
                   IN  /\ OneText(draft'[r], draft'[r][1].text)
                       /\ \A k \in Named(versions, r, target_version) :
                             draft'[r][1].text = versions[r][k].variants[1].text
                       /\ loc[p].solo
                          => /\ SameVariantList(draft'[r], draft[r])
                             /\ target_version = "DRAFT"
                                => draft'[r][1].text = draft[r][1].text
             /\ (pc[p] = "p_update" /\ pc'[p] = "p_version")
                => LET r == loc[p].target_id
                   IN  /\ OneText(draft'[r], draft'[r][1].text)
                       /\ loc[p].solo
                          => /\ SameVariantList(draft'[r], draft[r])
                             /\ draft'[r][1].text = draft[loc[p].id][1].text]_vars

\* a rollback to version 1, whose two variants hold different texts, returned
\* True: both variants of the draft hold the text of the version's first
\* variant and keep their names, so the second variant is not the version's
C22_Witness ==
    /\ ret.op = "rollback" /\ ret.val = "True" /\ ret.args.target_version = "1"
    /\ Len(draft[ret.id]) = 2
    /\ versions[ret.id][1].variants[1].text # versions[ret.id][1].variants[2].text
    /\ draft[ret.id][1] = Variant("a", versions[ret.id][1].variants[1].text)
    /\ draft[ret.id][2] = Variant("b", versions[ret.id][1].variants[1].text)

\* session p takes the step: it moves on in its operation, or the step ends
\* an operation of p
Acts(p) == pc'[p] # pc[p] \/ (ret'.op # "none" /\ ret'.p = p)

\* the step leaves the draft, the versions and the tags of prompt r alone
Untouched(r) ==
    /\ draft'[r] = draft[r]
    /\ versions'[r] = versions[r]
    /\ draft_tags'[r] = draft_tags[r]

\* the operation whose return ret is has succeeded
Succeeded ==
    \/ ret.op = "create" /\ ret.val \notin {"None", "raise"}
    \/ ret.op \in {"rollback", "promote"} /\ ret.val = "True"

\* C23: no step writes the parameter store; the step that calls an operation
\* writes nothing; a step of create_tagged_version or rollback_to_version
\* leaves every prompt but its own alone; a step of promote_version leaves
\* every prompt but the destination alone, the source too when it is another
\* prompt; and at the return of a successful mutating call that no other
\* session interleaved with, one prompt has one version more than at the call
\* and every other prompt has as many as it had.
C23_Frame ==
    /\ [](Succeeded /\ ret.solo
          => \A r \in Resources :
                Len(versions[r]) = ret.nver[r] + (IF r = WrittenPrompt(ret) THEN 1 ELSE 0))
    /\ [][/\ param' = param
          /\ \A p \in Procs :
                Acts(p)
                => /\ ~InCall(p) => UNCHANGED store
                   /\ (InCall(p) /\ loc[p].op \in {"create", "rollback"})
                      => \A r \in Resources \ {loc[p].id} : Untouched(r)
                   /\ (InCall(p) /\ loc[p].op = "promote")
                      => \A r \in Resources \ {param[PathOf(loc[p].args.to_env)]} :
                            Untouched(r)]_vars

\* a promotion from dev to prod returned True: the prod prompt has one version
\* more, the dev prompt has its draft, its versions and no tags of its own as
\* at the start, and the parameter store still names one prompt each
C23_Witness ==
    /\ ret.op = "promote" /\ ret.val = "True" /\ ret.solo
    /\ ret.id = "P1" /\ ret.target_id = "P2"
    /\ param = Separate
    /\ Len(versions["P2"]) = ret.nver["P2"] + 1
    /\ versions["P1"] = Gapped
    /\ draft["P1"] = <<Variant("a", TextA), Variant("b", TextB)>>
    /\ draft["P2"] = <<Variant("a", TextA)>>
    /\ draft_tags["P1"] = NoTags

====
